---- MODULE Spec2Model ----
(***************************************************************************)
(* Model of generate_project.py: the ProjectGenerator pipeline run by      *)
(* main() -- construct the generator, request a completion with bounded    *)
(* retry, parse the delimited response, write the project files -- and the *)
(* pure helpers it uses (_parse_structured_response, name sanitization,    *)
(* _enhance_readme).                                                       *)
(*                                                                         *)
(* Strings are sequences of symbols.  A symbol is one character ("a", " ", *)
(* "\n", ...) or one whole literal of the program (a marker such as        *)
(* "===MAIN_PY_START===", a fixed line of the README template): no text    *)
(* the model generates spells a literal out of characters, so str.find on  *)
(* the characters and Find on the symbols locate the same occurrences.     *)
(* Indices are 0-based as in Python; Find returns -1 when nothing is       *)
(* found and Slice follows Python's slice rules for a negative bound.      *)
(*                                                                         *)
(* Environment: the faults injected are those of the error taxonomy --     *)
(* a missing credential, transport failures, malformed envelopes and       *)
(* content, and failing file writes.  Directory creation succeeds.         *)
(***************************************************************************)
EXTENDS Integers, Sequences, FiniteSets, TLC

VARIABLES
    pc,            \* position of main(): start, request, parse, create, write, finish, except, done
    envKey,        \* value of os.getenv("GROQ_API_KEY")
    customName,    \* args.name
    jsonErrIsRequestException, \* whether the installed requests raises its JSONDecodeError as a RequestException
    gen,           \* how the completion text was laid out (fields present, order, padding)
    serverBody,    \* the JSON envelope the endpoint answers with on a 2xx status
    apiKey,        \* self.api_key
    attempt,       \* loop variable of _make_api_request
    outcomes,      \* outcome of each requests.post so far, in order
    response,      \* value returned by _make_api_request
    projectData,   \* value returned by _parse_response
    raised,        \* the exception propagating to main(), "none" when there is none
    dirs,          \* directories created
    disk,          \* files on disk: name -> content
    writeLog,      \* names of the files opened for writing, in order
    filesToCreate, \* files_to_create, in insertion order: <<name, content>>
    fileIdx,       \* position of the write loop in filesToCreate (0-based)
    log,           \* records emitted through logger
    exitCode,      \* return value of main()
    name,          \* SpecSanitize: the name given to the sanitizer
    sanitized      \* SpecSanitize: results of sanitizing, then sanitizing the result

vars == <<pc, envKey, customName, jsonErrIsRequestException, gen, serverBody,
          apiKey, attempt, outcomes, response, projectData, raised, dirs, disk,
          writeLog, filesToCreate, fileIdx, log, exitCode, name, sanitized>>

----------------------------------------------------------------------------
(* Bounds *)

\* longest run of blanks put before and after a field's text
MaxPad == 1

\* longest name given to the sanitizer
MaxNameLen == 3

----------------------------------------------------------------------------
(* Values *)

EmptyMap == [k \in {} |-> <<>>]

\* os.getenv of a variable that is not set
NoneVal == "None"

\* a value that was never assigned / Python's None, where an envelope is expected
UnsetResponse == [kind |-> "<unset>", content |-> <<>>]
NoneResponse == [kind |-> "None", content |-> <<>>]

max_retries == 3

Whitespace == {" ", "\n", "\t"}

UpperSeq == <<"A","B","C","D","E","F","G","H","I","J","K","L","M",
              "N","O","P","Q","R","S","T","U","V","W","X","Y","Z">>
LowerSeq == <<"a","b","c","d","e","f","g","h","i","j","k","l","m",
              "n","o","p","q","r","s","t","u","v","w","x","y","z">>
Digits == {"0","1","2","3","4","5","6","7","8","9"}
Range(s) == {s[i] : i \in DOMAIN s}

\* str.isalnum on one character
IsAlnum(c) == c \in Range(UpperSeq) \cup Range(LowerSeq) \cup Digits

\* str.lower
LowerChar(c) ==
    IF c \in Range(UpperSeq)
    THEN LowerSeq[CHOOSE i \in DOMAIN UpperSeq : UpperSeq[i] = c]
    ELSE c
Lower(s) == [i \in DOMAIN s |-> LowerChar(s[i])]

Min(S) == CHOOSE x \in S : \A y \in S : x <= y

\* sub in s, for a sequence of symbols sub
Contains(s, sub) ==
    \E i \in 0..(Len(s) - Len(sub)) : SubSeq(s, i + 1, i + Len(sub)) = sub

\* s.find(tok, start) for a one-symbol tok
Find(s, tok, start) ==
    LET hits == {i \in start..(Len(s) - 1) : s[i + 1] = tok}
    IN  IF hits = {} THEN -1 ELSE Min(hits)

\* s[start:end]
Slice(s, start, end) ==
    LET n == Len(s)
        clamp(i) == IF i < 0 THEN (IF i + n < 0 THEN 0 ELSE i + n)
                    ELSE (IF i > n THEN n ELSE i)
        lo == clamp(start)
        hi == clamp(end)
    IN  IF lo >= hi THEN <<>> ELSE SubSeq(s, lo + 1, hi)

\* s.strip()
RECURSIVE LStrip(_)
LStrip(s) == IF s # <<>> /\ Head(s) \in Whitespace THEN LStrip(Tail(s)) ELSE s
RECURSIVE RStrip(_)
RStrip(s) ==
    IF s # <<>> /\ s[Len(s)] \in Whitespace
    THEN RStrip(SubSeq(s, 1, Len(s) - 1)) ELSE s
Strip(s) == RStrip(LStrip(s))

\* s.endswith('\n')
EndsWithNewline(s) == s # <<>> /\ s[Len(s)] = "\n"

\* length of a marker literal, in symbols
MarkerLen(m) == 1

----------------------------------------------------------------------------
(* _parse_structured_response *)

DefaultProjectName ==
    <<"g","e","n","e","r","a","t","e","d","_","p","r","o","j","e","c","t">>
DefaultDescription ==
    <<"A","I"," ","g","e","n","e","r","a","t","e","d"," ",
      "P","y","t","h","o","n"," ","p","r","o","j","e","c","t">>
DefaultRequirements ==
    <<"#"," ","N","o"," ","r","e","q","u","i","r","e","m","e","n","t","s"," ",
      "s","p","e","c","i","f","i","e","d">>
DefaultReadme(result) ==
    <<"#", " ">> \o result["project_name"] \o <<"\n", "\n">>
        \o (IF "description" \in DOMAIN result THEN result["description"] ELSE <<>>)

\* "if marker in content: start = find(marker) + len; end = find('\n', start);
\*  result[key] = content[start:end].strip()"
ExtractLine(result, content, marker, key) ==
    IF Contains(content, <<marker>>)
    THEN LET start == Find(content, marker, 0) + MarkerLen(marker)
             end == Find(content, "\n", start)
         IN  (key :> Strip(Slice(content, start, end))) @@ result
    ELSE result

\* "if start_marker in content and end_marker in content: ..."
ExtractBlock(result, content, start_marker, end_marker, key) ==
    IF Contains(content, <<start_marker>>) /\ Contains(content, <<end_marker>>)
    THEN LET start == Find(content, start_marker, 0) + MarkerLen(start_marker)
             end == Find(content, end_marker, 0)
         IN  (key :> Strip(Slice(content, start, end))) @@ result
    ELSE result

ExtractFields(content) ==
    LET r1 == ExtractLine(EmptyMap, content, "PROJECT_NAME:", "project_name")
        r2 == ExtractLine(r1, content, "DESCRIPTION:", "description")
        r3 == ExtractBlock(r2, content, "===MAIN_PY_START===", "===MAIN_PY_END===", "main_py")
        r4 == ExtractBlock(r3, content, "===REQUIREMENTS_START===",
                           "===REQUIREMENTS_END===", "requirements_txt")
    IN  ExtractBlock(r4, content, "===README_START===", "===README_END===", "readme_md")

SetDefault(result, key, value) ==
    IF key \in DOMAIN result THEN result ELSE (key :> value) @@ result

\* variant: the requirements default is forgotten
DefaultsAfterMain_NoRequirements(result) ==
    SetDefault(result, "readme_md", DefaultReadme(result))

\* the defaults set after the main_py check
DefaultsAfterMain(result) ==
    LET d1 == SetDefault(result, "requirements_txt", DefaultRequirements)
    IN  SetDefault(d1, "readme_md", DefaultReadme(d1))

\* variant: a missing main_py is defaulted like the other fields
ParseStructuredResponse_DefaultMain(content) ==
    LET r  == ExtractFields(content)
        d1 == SetDefault(r, "project_name", DefaultProjectName)
        d2 == SetDefault(d1, "description", DefaultDescription)
    IN  [raised |-> "none", value |-> DefaultsAfterMain(SetDefault(d2, "main_py", <<>>))]

\* returns [raised, value]: the exception raised ("none" if none) and the mapping
ParseStructuredResponse(content) ==
    LET r  == ExtractFields(content)
        d1 == SetDefault(r, "project_name", DefaultProjectName)
        d2 == SetDefault(d1, "description", DefaultDescription)
    IN  IF "main_py" \notin DOMAIN d2
        THEN [raised |-> "ValueError: No main.py code found in response", value |-> EmptyMap]
        ELSE [raised |-> "none", value |-> DefaultsAfterMain(d2)]

required_fields == <<"project_name", "main_py", "requirements_txt", "readme_md">>

MissingFields(project_data) ==
    SelectSeq(required_fields, LAMBDA f : f \notin DOMAIN project_data)

----------------------------------------------------------------------------
(* create_project_files and its helpers *)

\* variant: a blank slipped into the permitted characters
Sanitize_KeepsBlank(project_name) ==
    SelectSeq(project_name, LAMBDA c : IsAlnum(c) \/ c \in {".", "_", "-", " "})

\* "".join(c for c in project_name if c.isalnum() or c in "._-")
Sanitize(project_name) ==
    SelectSeq(project_name, LAMBDA c : IsAlnum(c) \/ c \in {".", "_", "-"})

\* an optional string is <<>> for None and <<s>> for the string s;
\* "x or y" takes x unless x is None or empty
Truthy(opt) == opt # <<>> /\ opt[1] # <<>>

Today == "<today>"
BaseDir == <<"projects">>

\* "<fence>" stands for the three backquotes of a Markdown code fence
EnhanceReadme(readme, date, project_data) ==
    LET e1 == IF EndsWithNewline(readme) THEN readme ELSE readme \o <<"\n">>
        e2 == e1 \o <<"\n## Project Information\n",
                      "- **Generated on**: ", date, "\n",
                      "- **Generated by**: Groq AI Project Generator\n">>
        e3 == IF "description" \in DOMAIN project_data
              THEN e2 \o <<"- **Description**: ">> \o project_data["description"] \o <<"\n">>
              ELSE e2
    IN  e3 \o <<"\n## Installation\n", "<fence>bash\n",
                "pip install -r requirements.txt\n", "python main.py\n", "<fence>\n">>

CreateBasicTest == <<"<test_main.py template>">>
CreateGitignore == <<"<.gitignore template>">>

\* "test" in project_data.get("description", "").lower()
MentionsTest(project_data) ==
    LET description == IF "description" \in DOMAIN project_data
                       THEN project_data["description"] ELSE <<>>
    IN  Contains(Lower(description), <<"t", "e", "s", "t">>)

\* variant: .gitignore is inserted before the optional test file
FilesToCreate_GitignoreEarly(project_data, today) ==
    <<  <<"main.py", project_data["main_py"]>>,
        <<"requirements.txt", project_data["requirements_txt"]>>,
        <<"README.md",
          EnhanceReadme(IF "readme_md" \in DOMAIN project_data
                        THEN project_data["readme_md"] ELSE <<>>,
                        today, project_data)>>,
        <<".gitignore", CreateGitignore>>  >>
    \o (IF MentionsTest(project_data)
        THEN << <<"test_main.py", CreateBasicTest>> >> ELSE <<>>)

\* the dict files_to_create, as the sequence of its items in insertion order
FilesToCreate(project_data, today) ==
    <<  <<"main.py", project_data["main_py"]>>,
        <<"requirements.txt", project_data["requirements_txt"]>>,
        <<"README.md",
          EnhanceReadme(IF "readme_md" \in DOMAIN project_data
                        THEN project_data["readme_md"] ELSE <<>>,
                        today, project_data)>>  >>
    \o (IF MentionsTest(project_data)
        THEN << <<"test_main.py", CreateBasicTest>> >> ELSE <<>>)
    \o << <<".gitignore", CreateGitignore>> >>

\* project_dir: base_dir / f"project_{today}" / project_name
ProjectDir(project_data, custom_name) ==
    LET project_name == IF Truthy(custom_name)
                        THEN custom_name[1] ELSE project_data["project_name"]
    IN  BaseDir \o << <<"project_", Today>> >> \o <<Sanitize(project_name)>>

----------------------------------------------------------------------------
(* The completion texts the endpoint may answer with *)

Fields == {"project_name", "description", "main_py", "requirements_txt", "readme_md"}
LineFields == {"project_name", "description"}

\* the order the prompt asks for
CanonicalOrder ==
    <<"project_name", "description", "main_py", "requirements_txt", "readme_md">>

Orders == {o \in [1..5 -> Fields] : \A f \in Fields : \E i \in 1..5 : o[i] = f}

StartMarker(f) ==
    CASE f = "project_name" -> "PROJECT_NAME:"
      [] f = "description" -> "DESCRIPTION:"
      [] f = "main_py" -> "===MAIN_PY_START==="
      [] f = "requirements_txt" -> "===REQUIREMENTS_START==="
      [] f = "readme_md" -> "===README_START==="

EndMarker(f) ==
    CASE f = "main_py" -> "===MAIN_PY_END==="
      [] f = "requirements_txt" -> "===REQUIREMENTS_END==="
      [] f = "readme_md" -> "===README_END==="

\* the text of field f: no blank at either end, no marker inside
Body(f, g) ==
    CASE f = "project_name" -> <<"m", "y", "_", "a", "p", "p">>
      [] f = "description" -> IF g.testy THEN <<"U", "n", "i", "t", " ", "T", "e", "s", "t", "s">>
                              ELSE <<"a", " ", "t", "o", "o", "l">>
      [] f = "main_py" -> <<"x", "=", "1", "\n", "y", "=", "2">>
      [] f = "requirements_txt" -> <<"r", "e", "q">>
      [] f = "readme_md" -> <<"#", " ", "D", "o", "c">>

Pads == UNION {[1..n -> {" "}] : n \in 0..MaxPad}

\* field f as it stands in the content; the last field may lack its final newline
Render(f, g, isLast) ==
    LET eol == IF isLast /\ ~g.trailNL THEN <<>> ELSE <<"\n">>
    IN  IF f \in LineFields
        THEN <<StartMarker(f)>> \o g.pre \o Body(f, g) \o g.post \o eol
        ELSE <<StartMarker(f), "\n">> \o g.pre \o Body(f, g) \o g.post
                 \o <<"\n", EndMarker(f)>> \o eol

PresentInOrder(g) == SelectSeq(g.order, LAMBDA f : f \in g.present)

RECURSIVE RenderAll(_, _)
RenderAll(fs, g) ==
    IF fs = <<>> THEN <<>>
    ELSE Render(Head(fs), g, Len(fs) = 1) \o RenderAll(Tail(fs), g)

BuildContent(g) ==
    (IF g.preamble THEN <<"H", "i", ":", "\n">> ELSE <<>>) \o RenderAll(PresentInOrder(g), g)

\* layouts of SpecParse: every subset of the fields in every order
ParseGens ==
    [present : SUBSET Fields, order : Orders, trailNL : BOOLEAN,
     pre : Pads, post : Pads, preamble : BOOLEAN, testy : {FALSE}]

\* layouts of Spec: every subset of the fields, in the order the prompt asks for
PipelineGens ==
    [present : SUBSET Fields, order : {CanonicalOrder}, trailNL : {TRUE},
     pre : {<<" ">>}, post : {<<>>}, preamble : {FALSE}, testy : BOOLEAN]

NoGen ==
    [present |-> {}, order |-> CanonicalOrder, trailNL |-> TRUE,
     pre |-> <<>>, post |-> <<>>, preamble |-> FALSE, testy |-> FALSE]

\* envelopes that are not well formed: no "choices" key; "choices" empty; content null
BadEnvelopes ==
    {[kind |-> k, content |-> <<>>] : k \in {"missing_key", "empty_choices", "null_content"}}

----------------------------------------------------------------------------
(* main() *)

DebugFile == <<"debug_response.txt">>

\* variant: only the empty string counts as missing
Falsy_EmptyOnly(key) == key = ""

\* "not self.api_key"
Falsy(key) == key \in {NoneVal, ""}

Outcomes == {"ok", "connection_error", "http_error", "invalid_json"}

\* "except requests.RequestException" catches the outcome
IsRequestException(outcome) ==
    \/ outcome \in {"connection_error", "http_error"}
    \/ outcome = "invalid_json" /\ jsonErrIsRequestException

\* variants of the final-attempt test: one attempt late, one attempt early
IsFinalAttempt_Late(a) == a = max_retries
IsFinalAttempt_Early(a) == a = max_retries - 2

\* "if attempt == max_retries - 1"
IsFinalAttempt(a) == a = max_retries - 1

Init ==
    /\ pc = "start"
    /\ envKey \in {NoneVal, "", "gsk_key"}
    /\ customName \in {<<>>, << <<>> >>, << <<"M", "y", " ", "A", "p", "p", "/", "2", ".", "0">> >>}
    /\ jsonErrIsRequestException \in BOOLEAN
    /\ \/ /\ gen \in PipelineGens
          /\ serverBody = [kind |-> "ok", content |-> BuildContent(gen)]
       \/ /\ gen = NoGen
          /\ serverBody \in BadEnvelopes
    /\ apiKey = NoneVal
    /\ attempt = 0
    /\ outcomes = <<>>
    /\ response = UnsetResponse
    /\ projectData = EmptyMap
    /\ raised = "none"
    /\ dirs = {}
    /\ disk = EmptyMap
    /\ writeLog = <<>>
    /\ filesToCreate = <<>>
    /\ fileIdx = 0
    /\ log = <<>>
    /\ exitCode = -1
    /\ name = <<>>
    /\ sanitized = <<>>

\* ProjectGenerator(base_dir=args.output_dir), then the first log line of main()
MainConstruct ==
    /\ pc = "start"
    /\ apiKey' = envKey
    /\ dirs' = dirs \cup {BaseDir}
    /\ IF Falsy(envKey)
       THEN /\ raised' = "ValueError: GROQ_API_KEY must be provided or set as environment variable"
            /\ pc' = "except"
            /\ log' = log
       ELSE /\ raised' = raised
            /\ pc' = "request"
            /\ log' = Append(log, <<"INFO", "Generating project">>)
    /\ attempt' = 0
    /\ UNCHANGED <<envKey, customName, jsonErrIsRequestException, gen, serverBody,
                   outcomes, response, projectData, disk, writeLog, filesToCreate,
                   fileIdx, exitCode, name, sanitized>>

\* one iteration of the retry loop of _make_api_request, up to the handlers of
\* generate_project when the exception leaves the loop
MakeApiRequest ==
    /\ pc = "request"
    /\ \E outcome \in Outcomes :
        LET logged == Append(log, <<"INFO", "Making API request">>)
        IN  /\ outcomes' = Append(outcomes, outcome)
            /\ IF outcome = "ok"
               THEN /\ response' = serverBody
                    /\ pc' = "parse"
                    /\ log' = logged
                    /\ UNCHANGED <<attempt, raised>>
               ELSE IF IsRequestException(outcome)
               THEN IF IsFinalAttempt(attempt)
                    THEN /\ raised' = "RequestException"
                         /\ pc' = "except"
                         /\ log' = Append(logged, <<"ERROR", "API request failed">>)
                         /\ UNCHANGED <<attempt, response>>
                    ELSE /\ log' = Append(logged, <<"WARNING", "Request failed, retrying">>)
                         /\ attempt' = attempt + 1
                         /\ IF attempt + 1 < max_retries
                            THEN pc' = "request" /\ response' = response
                            ELSE pc' = "parse" /\ response' = NoneResponse
                         /\ UNCHANGED raised
               ELSE /\ raised' = "JSONDecodeError"
                    /\ pc' = "except"
                    /\ log' = Append(logged, <<"ERROR", "Failed to parse API response">>)
                    /\ UNCHANGED <<attempt, response>>
    /\ UNCHANGED <<envKey, customName, jsonErrIsRequestException, gen, serverBody,
                   apiKey, projectData, dirs, disk, writeLog, filesToCreate,
                   fileIdx, exitCode, name, sanitized>>

\* variant: a failed parse goes back to the request loop
AfterParse_Retry(raisedKind) == IF raisedKind = "none" THEN "create" ELSE "request"

\* where generate_project continues after _parse_response: its except clauses
\* name RequestException and JSONDecodeError only, and neither sends a request again
AfterParse(raisedKind) == IF raisedKind = "none" THEN "create" ELSE "except"

\* what _parse_response does with an envelope, given whether debug_response.txt
\* can be opened: the exception it raises, its result, and what it wrote
ParseOutcome(resp, debugWriteOk) ==
    LET nothing == [raised |-> "none", value |-> EmptyMap, opened |-> FALSE,
                    written |-> <<>>, saved |-> FALSE]
    IN  IF resp = NoneResponse
        THEN [nothing EXCEPT !.raised = "TypeError"]
        ELSE IF resp.kind \in {"missing_key", "empty_choices"}
        THEN [nothing EXCEPT !.raised = "ValueError: Unexpected API response format"]
        ELSE IF ~debugWriteOk
        THEN [nothing EXCEPT !.raised = "OSError: debug_response.txt"]
        ELSE IF resp.kind = "null_content"
        THEN [nothing EXCEPT !.raised = "TypeError", !.opened = TRUE]
        ELSE LET parsed == ParseStructuredResponse(resp.content)
                 wrote == [nothing EXCEPT !.opened = TRUE, !.written = resp.content,
                                          !.saved = TRUE]
             IN  IF parsed.raised # "none"
                 THEN [wrote EXCEPT !.raised = parsed.raised]
                 ELSE IF MissingFields(parsed.value) # <<>>
                 THEN [wrote EXCEPT !.raised = "ValueError: Missing required fields"]
                 ELSE [wrote EXCEPT !.value = parsed.value]

\* _parse_response, called by generate_project
ParseResponse ==
    /\ pc = "parse"
    /\ \E debugWriteOk \in BOOLEAN :
        LET out == ParseOutcome(response, debugWriteOk)
        IN  /\ raised' = out.raised
            /\ projectData' = out.value
            /\ pc' = AfterParse(out.raised)
            /\ IF out.opened
               THEN /\ disk' = (DebugFile :> out.written) @@ disk
                    /\ writeLog' = Append(writeLog, DebugFile)
               ELSE UNCHANGED <<disk, writeLog>>
            /\ log' = IF out.saved
                      THEN Append(log, <<"INFO", "Raw response saved to debug_response.txt">>)
                      ELSE log
    /\ UNCHANGED <<envKey, customName, jsonErrIsRequestException, gen, serverBody,
                   apiKey, attempt, outcomes, response, dirs, filesToCreate,
                   fileIdx, exitCode, name, sanitized>>

\* create_project_files up to the write loop
CreateProjectFiles ==
    /\ pc = "create"
    /\ dirs' = dirs \cup {ProjectDir(projectData, customName)}
    /\ filesToCreate' = FilesToCreate(projectData, Today)
    /\ fileIdx' = 0
    /\ pc' = "write"
    /\ UNCHANGED <<envKey, customName, jsonErrIsRequestException, gen, serverBody,
                   apiKey, attempt, outcomes, response, projectData, raised, disk,
                   writeLog, log, exitCode, name, sanitized>>

\* one iteration of the write loop of create_project_files
WriteFile ==
    /\ pc = "write"
    /\ fileIdx < Len(filesToCreate)
    /\ \E writeOk \in BOOLEAN :
        LET item == filesToCreate[fileIdx + 1]
            file_path == ProjectDir(projectData, customName) \o <<item[1]>>
        IN  IF writeOk
            THEN /\ disk' = (file_path :> item[2]) @@ disk
                 /\ writeLog' = Append(writeLog, file_path)
                 /\ log' = Append(log, <<"INFO", "Created", item[1]>>)
                 /\ fileIdx' = fileIdx + 1
                 /\ pc' = IF fileIdx + 1 < Len(filesToCreate) THEN "write" ELSE "finish"
                 /\ UNCHANGED raised
            ELSE /\ raised' = "OSError: write failed"
                 /\ pc' = "except"
                 /\ UNCHANGED <<disk, writeLog, log, fileIdx>>
    /\ UNCHANGED <<envKey, customName, jsonErrIsRequestException, gen, serverBody,
                   apiKey, attempt, outcomes, response, projectData, dirs,
                   filesToCreate, exitCode, name, sanitized>>

\* the end of the try block of main(), and "return 0"
MainFinish ==
    /\ pc = "finish"
    /\ log' = log \o <<  <<"INFO", "Project created successfully">>, <<"INFO", "Project">> >>
                  \o (IF "description" \in DOMAIN projectData
                      THEN << <<"INFO", "Description">> >> ELSE <<>>)
    /\ exitCode' = 0
    /\ pc' = "done"
    /\ UNCHANGED <<envKey, customName, jsonErrIsRequestException, gen, serverBody,
                   apiKey, attempt, outcomes, response, projectData, raised, dirs,
                   disk, writeLog, filesToCreate, fileIdx, name, sanitized>>

\* variant: the handler logs and falls through to "return 0"
MainExcept_ReturnsZero ==
    /\ pc = "except"
    /\ log' = Append(log, <<"ERROR", "Failed to generate project", raised>>)
    /\ exitCode' = 0
    /\ pc' = "done"
    /\ UNCHANGED <<envKey, customName, jsonErrIsRequestException, gen, serverBody,
                   apiKey, attempt, outcomes, response, projectData, raised, dirs,
                   disk, writeLog, filesToCreate, fileIdx, name, sanitized>>

\* "except Exception as e: logger.error(...); return 1"
MainExcept ==
    /\ pc = "except"
    /\ log' = Append(log, <<"ERROR", "Failed to generate project", raised>>)
    /\ exitCode' = 1
    /\ pc' = "done"
    /\ UNCHANGED <<envKey, customName, jsonErrIsRequestException, gen, serverBody,
                   apiKey, attempt, outcomes, response, projectData, raised, dirs,
                   disk, writeLog, filesToCreate, fileIdx, name, sanitized>>

Next ==
    \/ MainConstruct
    \/ MakeApiRequest
    \/ ParseResponse
    \/ CreateProjectFiles
    \/ WriteFile
    \/ MainFinish
    \/ MainExcept

Spec == Init /\ [][Next]_vars

----------------------------------------------------------------------------
(* _parse_response on every layout of the content *)

InitParse ==
    /\ pc = "parse"
    /\ envKey = "gsk_key"
    /\ customName = <<>>
    /\ jsonErrIsRequestException = TRUE
    /\ gen \in ParseGens
    /\ serverBody = [kind |-> "ok", content |-> BuildContent(gen)]
    /\ apiKey = "gsk_key"
    /\ attempt = 0
    /\ outcomes = <<"ok">>
    /\ response = serverBody
    /\ projectData = EmptyMap
    /\ raised = "none"
    /\ dirs = {BaseDir}
    /\ disk = EmptyMap
    /\ writeLog = <<>>
    /\ filesToCreate = <<>>
    /\ fileIdx = 0
    /\ log = <<>>
    /\ exitCode = -1
    /\ name = <<>>
    /\ sanitized = <<>>

NextParse == ParseResponse

SpecParse == InitParse /\ [][NextParse]_vars

----------------------------------------------------------------------------
(* the sanitizer of create_project_files on every short name *)

NameChars == {"a", "Z", "7", ".", "_", "-", " ", "/"}

Names == UNION {[1..n -> NameChars] : n \in 0..MaxNameLen}

InitSanitize ==
    /\ pc = "sanitize"
    /\ name \in Names
    /\ sanitized = <<>>
    /\ envKey = NoneVal
    /\ customName = <<>>
    /\ jsonErrIsRequestException = TRUE
    /\ gen = NoGen
    /\ serverBody = UnsetResponse
    /\ apiKey = NoneVal
    /\ attempt = 0
    /\ outcomes = <<>>
    /\ response = UnsetResponse
    /\ projectData = EmptyMap
    /\ raised = "none"
    /\ dirs = {}
    /\ disk = EmptyMap
    /\ writeLog = <<>>
    /\ filesToCreate = <<>>
    /\ fileIdx = 0
    /\ log = <<>>
    /\ exitCode = -1

\* sanitize the name, then sanitize what came out
ApplySanitize ==
    /\ pc = "sanitize"
    /\ Len(sanitized) < 2
    /\ sanitized' = Append(sanitized,
                           Sanitize(IF sanitized = <<>> THEN name
                                    ELSE sanitized[Len(sanitized)]))
    /\ UNCHANGED <<pc, envKey, customName, jsonErrIsRequestException, gen, serverBody,
                   apiKey, attempt, outcomes, response, projectData, raised, dirs,
                   disk, writeLog, filesToCreate, fileIdx, log, exitCode, name>>

NextSanitize == ApplySanitize

SpecSanitize == InitSanitize /\ [][NextSanitize]_vars

----------------------------------------------------------------------------
(* Properties *)

TransportFailures == {"connection_error", "http_error"}

AllTransportFailures(os) == \A i \in DOMAIN os : os[i] \in TransportFailures

\* C1: one call of _make_api_request sends at most 3 requests; a transport
\* failure on attempt 1 or 2 is followed by another attempt; a transport failure
\* on attempt 3 raises to the caller with no fourth request; and the call ends
\* either with a response returned or with an exception raised, never with neither.
C1_BoundedRetry ==
    /\ Len(outcomes) <= 3
    /\ \A i \in DOMAIN outcomes :
          outcomes[i] \in TransportFailures =>
              IF i < 3
              THEN i < Len(outcomes) \/ (pc = "request" /\ raised = "none")
              ELSE /\ pc \in {"except", "done"}
                   /\ raised = "RequestException"
                   /\ response = UnsetResponse
    /\ (outcomes # <<>> /\ pc # "request") =>
          (response \notin {UnsetResponse, NoneResponse})
              # (raised \in {"RequestException", "JSONDecodeError"})

C1_Witness ==
    /\ pc = "done"
    /\ outcomes = <<"connection_error", "http_error", "http_error">>
    /\ raised = "RequestException"

MissingMainMarkers(content) ==
    ~(Contains(content, <<"===MAIN_PY_START===">>) /\ Contains(content, <<"===MAIN_PY_END===">>))

ParsedContentLacksMain ==
    /\ response.kind = "ok"
    /\ MissingMainMarkers(response.content)
    /\ pc \notin {"start", "request", "parse"}

\* C2 as stated: content without the main_py markers makes parsing fail with
\* "No main.py code found in response" and no file at all is written
C2_NoFileAtAll ==
    ParsedContentLacksMain =>
        /\ raised = "ValueError: No main.py code found in response"
        /\ DOMAIN disk = {}
        /\ writeLog = <<>>

\* C2 amended: content without the main_py markers makes the invocation fail
\* before create_project_files, so no project file is written; the only file
\* written is debug_response.txt, holding the raw content, and the failure is
\* "No main.py code found in response" whenever that file could be written
C2_NoProjectFile ==
    ParsedContentLacksMain =>
        /\ pc \in {"except", "done"}
        /\ raised # "none"
        /\ filesToCreate = <<>>
        /\ DOMAIN disk \subseteq {DebugFile}
        /\ IF DebugFile \in DOMAIN disk
           THEN /\ raised = "ValueError: No main.py code found in response"
                /\ disk[DebugFile] = response.content
           ELSE raised = "OSError: debug_response.txt"
        /\ pc = "done" => exitCode = 1

C2_Witness ==
    /\ ParsedContentLacksMain
    /\ pc = "done"
    /\ "project_name" \in gen.present
    /\ raised = "ValueError: No main.py code found in response"
    /\ DOMAIN disk = {DebugFile}

FormatErrors ==
    {"ValueError: Unexpected API response format",
     "ValueError: No main.py code found in response",
     "ValueError: Missing required fields",
     "TypeError"}

\* C4: once _make_api_request has returned a response no further request is
\* sent, whatever parsing does; and a protocol/format error ends main() with a
\* non-zero exit code
C4_NoRetryAfterResponse ==
    /\ [][response # UnsetResponse => (outcomes' = outcomes /\ pc' # "request")]_vars
    /\ [](raised \in FormatErrors => pc \in {"except", "done"})
    /\ []((raised \in FormatErrors /\ pc = "done") => exitCode = 1)

C4_Witness ==
    /\ pc = "done"
    /\ raised = "ValueError: Unexpected API response format"
    /\ serverBody.kind = "empty_choices"
    /\ outcomes = <<"http_error", "ok">>
    /\ exitCode = 1

\* C5 as stated: when all five fields are present and well formed, each field
\* of the result is the trimmed text between its markers, in every order of the
\* fields, also when PROJECT_NAME: or DESCRIPTION: is the last line and has no
\* final newline
C5_ExtractsEveryField ==
    (pc = "create" /\ gen.present = Fields) =>
        \A f \in Fields : projectData[f] = Body(f, gen)

\* C6: the result does not depend on how many attempts failed before the one
\* that succeeded -- two transport failures are followed by a third attempt, a
\* success on any attempt returns the envelope the endpoint sent and parses to
\* the mapping of that envelope -- and three transport failures raise the
\* transport error out of main() with exit code 1
C6_RetryEquivalence ==
    /\ (Len(outcomes) = 2 /\ AllTransportFailures(outcomes)) =>
          (pc = "request" /\ raised = "none")
    /\ (outcomes # <<>> /\ outcomes[Len(outcomes)] = "ok") =>
          /\ response = serverBody
          /\ pc \in {"create", "write", "finish"} =>
                projectData = ParseOutcome(serverBody, TRUE).value
    /\ (Len(outcomes) = 3 /\ AllTransportFailures(outcomes)) =>
          /\ raised = "RequestException"
          /\ projectData = EmptyMap
          /\ pc = "done" => exitCode = 1

C6_Witness ==
    /\ outcomes = <<"connection_error", "http_error", "ok">>
    /\ pc = "create"
    /\ gen.present = Fields
    /\ projectData["main_py"] = Body("main_py", gen)

C7_Description ==
    <<"A","I"," ","g","e","n","e","r","a","t","e","d"," ",
      "P","y","t","h","o","n"," ","p","r","o","j","e","c","t">>
C7_Requirements ==
    <<"#"," ","N","o"," ","r","e","q","u","i","r","e","m","e","n","t","s"," ",
      "s","p","e","c","i","f","i","e","d">>

\* C7: content with only PROJECT_NAME: and the main_py markers gets
\* description "AI generated Python project", requirements
\* "# No requirements specified" and readme "# <name>\n\n<description>"; and a
\* parse that returns always holds the four required fields, so "Missing
\* required fields" is never raised
C7_Defaults ==
    /\ (pc = "create" /\ gen.present = {"project_name", "main_py"}) =>
          /\ projectData["description"] = C7_Description
          /\ projectData["requirements_txt"] = C7_Requirements
          /\ projectData["readme_md"] =
                <<"#", " ">> \o projectData["project_name"] \o <<"\n", "\n">>
                    \o C7_Description
          /\ projectData["main_py"] = Body("main_py", gen)
    /\ pc = "create" =>
          {"project_name", "main_py", "requirements_txt", "readme_md"}
              \subseteq DOMAIN projectData
    /\ raised # "ValueError: Missing required fields"

C7_Witness ==
    /\ pc = "create"
    /\ gen.present = {"project_name", "main_py"}
    /\ gen.order[5] = "project_name"
    /\ projectData["description"] = C7_Description

PipelineComplete ==
    /\ raised = "none"
    /\ projectData # EmptyMap
    /\ filesToCreate # <<>>
    /\ fileIdx = Len(filesToCreate)
    /\ \A i \in DOMAIN filesToCreate :
          LET path == ProjectDir(projectData, customName) \o <<filesToCreate[i][1]>>
          IN  path \in DOMAIN disk /\ disk[path] = filesToCreate[i][2]

\* C8: main() returns 0 exactly when construction, request, parse and all file
\* writes completed without error; on any error it returns non-zero and the
\* last thing it logged is the error with its cause
C8_ExitCode ==
    /\ pc # "done" => exitCode = -1
    /\ pc = "done" =>
          /\ exitCode \in {0, 1}
          /\ exitCode = 0 <=> PipelineComplete
          /\ raised # "none" => exitCode # 0
          /\ exitCode # 0 =>
                /\ raised # "none"
                /\ log # <<>>
                /\ log[Len(log)] = <<"ERROR", "Failed to generate project", raised>>

C8_Witness ==
    /\ pc = "done"
    /\ exitCode = 1
    /\ raised = "OSError: write failed"
    /\ fileIdx = 2

PermittedNameChars == {"a", "Z", "7", ".", "_", "-"}

\* C9: sanitizing keeps exactly the alphanumeric characters and '.', '_', '-'
\* of the name, in order, and sanitizing the result again changes nothing
C9_SanitizeIdempotent ==
    /\ Len(sanitized) >= 1 =>
          /\ \A i \in DOMAIN sanitized[1] : sanitized[1][i] \in PermittedNameChars
          /\ Len(sanitized[1]) =
                Cardinality({i \in DOMAIN name : name[i] \in PermittedNameChars})
    /\ Len(sanitized) = 2 => sanitized[2] = sanitized[1]

C9_Witness ==
    /\ Len(sanitized) = 2
    /\ name = <<"a", "/", "_">>
    /\ sanitized[1] = <<"a", "_">>

\* the names of the project files opened for writing, in order
ProjectWrites ==
    LET ws == SelectSeq(writeLog, LAMBDA path : path # DebugFile)
    IN  [i \in DOMAIN ws |-> ws[i][Len(ws[i])]]

\* the description the endpoint sent mentions tests ("Unit Tests")
DescriptionMentionsTests == gen.testy /\ "description" \in gen.present

ExpectedFileOrder ==
    <<"main.py", "requirements.txt", "README.md">>
        \o (IF DescriptionMentionsTests THEN <<"test_main.py">> ELSE <<>>)
        \o <<".gitignore">>

\* C10: the project files are written one at a time in the order main.py,
\* requirements.txt, README.md, test_main.py (when the description mentions
\* "test"), .gitignore; a failed write ends the invocation with that error, no
\* later file is written, and the files written before it stay on disk
C10_WriteOrder ==
    LET names == ProjectWrites
        paths == {ProjectDir(projectData, customName) \o <<names[i]>> : i \in DOMAIN names}
    IN  /\ Len(names) <= Len(ExpectedFileOrder)
        /\ names = SubSeq(ExpectedFileOrder, 1, Len(names))
        /\ DOMAIN disk \ {DebugFile} = (IF names = <<>> THEN {} ELSE paths)
        /\ raised = "OSError: write failed" =>
              /\ pc \in {"except", "done"}
              /\ Len(names) < Len(ExpectedFileOrder)
              /\ pc = "done" => exitCode = 1
        /\ (pc = "done" /\ raised = "none") => names = ExpectedFileOrder

C10_Witness ==
    /\ pc = "done"
    /\ raised = "OSError: write failed"
    /\ DescriptionMentionsTests
    /\ ProjectWrites = <<"main.py", "requirements.txt", "README.md">>

====
